---- MODULE Spec2Model ----
(***************************************************************************)
(* Model of blwipe (src/blwipe.go): the run of main() as a state machine.  *)
(* One run = flag check, volume header decode and validation, three        *)
(* metadata-block probes through InfoStruct.Read, the "no valid block"     *)
(* check, and the wipe loop over the four erase regions.                   *)
(*                                                                         *)
(* The device is seen through the fields the program decodes.  The bytes   *)
(* of a metadata block the program never interprets are summarised by one  *)
(* fill byte; crc32.ChecksumIEEE (library code) is modelled by a checksum  *)
(* over the same bytes with a smaller modulus.  64-bit offsets are kept    *)
(* at WordBits bits, so that uint64 -> int64 conversion and int64 addition *)
(* wrap exactly as in the program, at a width TLC can compute with.        *)
(* The -v flag only adds output lines and is left out.                     *)
(***************************************************************************)
EXTENDS Integers, Sequences, FiniteSets, TLC

\* width of the model's 64-bit words
WordBits == 24

RECURSIVE Pow2(_)
Pow2(n) == IF n = 0 THEN 1 ELSE 2 * Pow2(n - 1)

Max(a, b) == IF a > b THEN a ELSE b
Min(a, b) == IF a < b THEN a ELSE b

\* two's-complement wrap of a mathematical integer into int64
Wrap64(x) ==
    LET m == Pow2(WordBits)
        r == x % m
    IN IF r >= m \div 2 THEN r - m ELSE r

\* int64(u) for a uint64 u
ToInt64(u) == Wrap64(u)

\* a + b in int64 arithmetic
Add64(a, b) == Wrap64(a + b)

\* sizes of the fixed-layout structures, as binary.Size reports them
VolumeHeaderSize == 216
InfoStructHeaderSize == 12
ValidationHeaderSize == 8

---------------------------------------------------------------------------
\* Guid.String and the signature check

HexDigits == <<"0","1","2","3","4","5","6","7","8","9","A","B","C","D","E","F">>

\* %0wX
RECURSIVE Hex(_, _)
Hex(n, w) == IF w = 0 THEN <<>> ELSE Append(Hex(n \div 16, w - 1), HexDigits[(n % 16) + 1])

GuidString(g) ==
    Hex(g.A, 8) \o <<"-">> \o Hex(g.B, 4) \o <<"-">> \o Hex(g.C, 4) \o <<"-">>
      \o Hex(g.D[1], 2) \o Hex(g.D[2], 2) \o <<"-">>
      \o Hex(g.E[1], 2) \o Hex(g.E[2], 2) \o Hex(g.E[3], 2)
      \o Hex(g.E[4], 2) \o Hex(g.E[5], 2) \o Hex(g.E[6], 2)

\* "4967D63B-2E29-4AD8-8399-F6A339E3D001"
INFO_GUID ==
    <<"4","9","6","7","D","6","3","B","-","2","E","2","9","-","4","A","D","8","-",
      "8","3","9","9","-","F","6","A","3","3","9","E","3","D","0","0","1">>

\* the bytes of "-FVE-FS-"
Magic == <<45, 70, 86, 69, 45, 70, 83, 45>>

VerifySignature(b) == b = Magic

---------------------------------------------------------------------------
\* checksum of a payload buffer

RECURSIVE SumSeq(_)
SumSeq(s) == IF s = <<>> THEN 0 ELSE Head(s) + SumSeq(Tail(s))

\* little-endian bytes of n, w of them
RECURSIVE LE(_, _)
LE(n, w) == IF w = 0 THEN <<>> ELSE <<n % 256>> \o LE(n \div 256, w - 1)

CrcModulus == 65521

\* buf: [Signature, Size, Version, InfoOffsets, fill, len]: the first len
\* bytes of a block; every byte outside the decoded fields equals fill
ChecksumIEEE(buf) ==
    LET known == buf.Signature \o LE(buf.Size, 2) \o LE(buf.Version, 2)
                   \o LE(buf.InfoOffsets[1], 8) \o LE(buf.InfoOffsets[2], 8)
                   \o LE(buf.InfoOffsets[3], 8)
        used  == Min(Len(known), buf.len)
    IN (SumSeq(SubSeq(known, 1, used)) + buf.fill * (buf.len - used) + buf.len)
          % CrcModulus

\* the first n bytes of the device image img
Buf(img, n) ==
    [Signature |-> img.Signature, Size |-> img.Size, Version |-> img.Version,
     InfoOffsets |-> img.InfoOffsets, fill |-> img.fill, len |-> n]

---------------------------------------------------------------------------
\* InfoStruct.Read

\* payload size from the header's size field and version tag; -1: unknown version
PayloadSize_Unscaled(rawSize, version) ==
    CASE version = 1 -> rawSize
      [] version = 2 -> rawSize
      [] OTHER -> -1

PayloadSize(rawSize, version) ==
    CASE version = 1 -> rawSize
      [] version = 2 -> rawSize * 16
      [] OTHER -> -1

SizeTooSmall(size) == size < 64

ChecksumMatches_HeaderOnly(buf, stored) ==
    ChecksumIEEE([buf EXCEPT !.len = InfoStructHeaderSize]) = stored

ChecksumMatches(buf, stored) == ChecksumIEEE(buf) = stored

\* the InfoStruct fields decoded from the verified payload
ParseInfo(img) ==
    [Signature |-> img.Signature, Size |-> img.Size, Version |-> img.Version,
     InfoOffsets |-> img.InfoOffsets]

\* r positioned at pos on a device of devSize bytes whose content from pos on
\* is img; s is the receiver.  Result: the returned size and err, the
\* receiver afterwards, the position of r afterwards, and the number of
\* payload bytes requested from r (0: the payload read was never issued).
Read(pos, img, devSize, s) ==
    LET avail(p) == Max(devSize - p, 0)
        fail(sz, e, p, req) ==
            [size |-> sz, err |-> e, s |-> s, pos |-> p, payloadReq |-> req]
        afterHdr == pos + InfoStructHeaderSize
        size == PayloadSize(img.Size, img.Version)
        \* r.Seek(-binary.Size(hdr), 1)
        start == afterHdr - InfoStructHeaderSize
        afterBuf == start + size
        afterVal == afterBuf + ValidationHeaderSize
    IN
    IF avail(pos) < InfoStructHeaderSize
      THEN fail(-1, "EOF", pos + avail(pos), 0)
    ELSE IF ~VerifySignature(img.Signature)
      THEN fail(-1, "invalid signature", afterHdr, 0)
    ELSE IF size = -1
      THEN fail(img.Size, "unknown version", afterHdr, 0)
    ELSE IF SizeTooSmall(size)
      THEN fail(size, "size too small", afterHdr, 0)
    ELSE IF avail(start) < size
      THEN fail(size, "unexpected EOF", start + avail(start), size)
    ELSE IF avail(afterBuf) < ValidationHeaderSize
      THEN fail(size, "cannot read validation header",
                afterBuf + avail(afterBuf), size)
    ELSE IF ~ChecksumMatches(Buf(img, size), img.vCrc32)
      THEN fail(size, "validation checksum mismatch", afterVal, size)
    ELSE [size |-> size + img.vSize, err |-> "", s |-> ParseInfo(img),
          pos |-> afterVal, payloadReq |-> size]

---------------------------------------------------------------------------
\* main: helpers

\* f.Seek(target, 0): a negative target is refused and the position stays
Seek(pos, target) == IF target < 0 THEN pos ELSE target

\* a & b on WordBits-bit words given as naturals
RECURSIVE BitAnd(_, _, _)
BitAnd(a, b, n) ==
    IF n = 0 THEN 0
    ELSE (a % 2) * (b % 2) + 2 * BitAnd(a \div 2, b \div 2, n - 1)

\* (infoSize + sector - 1) & ^(sector - 1)
RoundUp(infoSize, sector) ==
    LET m == Pow2(WordBits)
    IN Wrap64(BitAnd((infoSize + sector - 1) % m, (m - 1 - (sector - 1)) % m, WordBits))

WeirdSectorSize(sectorSize) == sectorSize < 512

HeaderValid(h) ==
    /\ VerifySignature(h.Signature)
    /\ ~WeirdSectorSize(h.SectorSize)
    /\ GuidString(h.Guid) = INFO_GUID

\* the message of the first failing header check
HeaderError(h) ==
    IF ~VerifySignature(h.Signature) THEN "invalid volume header signature"
    ELSE IF WeirdSectorSize(h.SectorSize) THEN "weird sector size"
    ELSE "unsupported GUID"

NoValidBlock_Negative(size) == size < 0

NoValidBlock(size) == size = 0

WipeRequested_Always(flag) == TRUE

WipeRequested(flag) == flag

RecordOffsets_FromHeader(inf, h) == [k \in 1..3 |-> ToInt64(h.InfoOffsets[k])]

\* validInfoOffsets after a successful decode into info
RecordOffsets(inf, h) == [k \in 1..3 |-> ToInt64(inf.InfoOffsets[k])]

\* the size recorded as validInfoSize after a successful decode
RecordSize(infoSize, h) == infoSize

EraseRegions_HeaderLast(h, offs, size) ==
    << [Name |-> "metadata block 0", Offset |-> offs[1], Size |-> size],
       [Name |-> "metadata block 1", Offset |-> offs[2], Size |-> size],
       [Name |-> "metadata block 2", Offset |-> offs[3], Size |-> size],
       [Name |-> "volume header",    Offset |-> 0,       Size |-> h.SectorSize] >>

EraseRegions(h, offs, size) ==
    << [Name |-> "volume header",    Offset |-> 0,       Size |-> h.SectorSize],
       [Name |-> "metadata block 0", Offset |-> offs[1], Size |-> size],
       [Name |-> "metadata block 1", Offset |-> offs[2], Size |-> size],
       [Name |-> "metadata block 2", Offset |-> offs[3], Size |-> size] >>

AfterWrite_Break(k, failed) == IF failed THEN 5 ELSE k + 1

\* the region the loop turns to after a write to region k, failed or not
AfterWrite(k, failed) == k + 1

\* where the buffer of region reg is written
WriteTarget(base, reg) == Add64(base, reg.Offset)

---------------------------------------------------------------------------
\* inputs: the device contents and the command line

GoodGuid == [A |-> 1231541819, B |-> 11817, C |-> 19160, D |-> <<131, 153>>,
             E |-> <<246, 163, 57, 227, 208, 1>>]
OtherGuid == [GoodGuid EXCEPT !.C = 19161]
ZeroGuid == [A |-> 0, B |-> 0, C |-> 0, D |-> <<0, 0>>, E |-> <<0, 0, 0, 0, 0, 0>>]

\* a uint64 whose int64 value is negative
HighOffset == Pow2(WordBits - 1)

HdrOffsets == <<1024, 2048, 4096>>

MkHeader(sig, sector, guid, offs) ==
    [Signature |-> sig, SectorSize |-> sector, Guid |-> guid, InfoOffsets |-> offs]

Headers ==
    { MkHeader(Magic, 512, GoodGuid, HdrOffsets),
      MkHeader(Magic, 1000, GoodGuid, HdrOffsets),
      MkHeader(Magic, 512, GoodGuid, <<HighOffset, 2048, 2048>>),
      MkHeader(<<45, 70, 86, 69, 45, 70, 83, 0>>, 512, GoodGuid, HdrOffsets),
      MkHeader(Magic, 256, GoodGuid, HdrOffsets),
      MkHeader(Magic, 512, OtherGuid, HdrOffsets) }

\* a block whose footer carries the checksum of its payload, plus delta
MkImage(sig, size, ver, offs, fill, vsize, delta) ==
    LET img == [Signature |-> sig, Size |-> size, Version |-> ver,
                InfoOffsets |-> offs, fill |-> fill, vSize |-> vsize, vCrc32 |-> 0]
        n == IF PayloadSize(size, ver) < 0 THEN size ELSE PayloadSize(size, ver)
    IN [img EXCEPT !.vCrc32 = (ChecksumIEEE(Buf(img, n)) + delta) % CrcModulus]

\* a block whose footer carries the checksum of its 12-byte header only
HeaderCrcImage ==
    LET img == MkImage(Magic, 64, 1, HdrOffsets, 7, 8, 0)
    IN [img EXCEPT !.vCrc32 = ChecksumIEEE(Buf(img, InfoStructHeaderSize))]

Images ==
    { MkImage(Magic, 64, 1, <<8192, 16384, 32768>>, 0, 8, 0),
      MkImage(Magic, 8, 2, <<8192, 20480, 40960>>, 3, 0, 0),
      MkImage(Magic, 64, 1, <<HighOffset, 16384, 16384>>, 0, 1000, 0),
      MkImage(Magic, 64, 1, <<8192, 16384, 32768>>, 0, 8, 1),
      HeaderCrcImage,
      MkImage(<<45, 70, 86, 69, 45, 70, 83>> \o <<32>>, 64, 1, HdrOffsets, 0, 8, 0),
      MkImage(Magic, 64, 3, HdrOffsets, 0, 8, 0),
      MkImage(Magic, 63, 1, HdrOffsets, 0, 8, 0),
      MkImage(Magic, 3, 2, HdrOffsets, 0, 8, 0) }

Offsets == {-1, 0, 512}

DevSizes == {100, 2116, 1000000}

ZeroHeader == MkHeader(<<0, 0, 0, 0, 0, 0, 0, 0>>, 0, ZeroGuid, <<0, 0, 0>>)

ZeroInfo == [Signature |-> <<0, 0, 0, 0, 0, 0, 0, 0>>, Size |-> 0, Version |-> 0,
             InfoOffsets |-> <<0, 0, 0>>]

---------------------------------------------------------------------------
\* main: the run

VARIABLES
    pc,               \* "start", "header", "probe", "check", "wipe", "exit"
    offset, doWipe,   \* the -offset and -wipe flags
    devSize,          \* size of the device in bytes
    hdrImg,           \* the volume header stored at the base offset
    disk,             \* position -> block content, for the positions read so far
    pos,              \* position of the file handle f
    hdr,              \* the decoded VolumeHeader
    i,                \* index of the probe loop
    info,             \* the InfoStruct the probes decode into
    validInfoSize, validInfoOffsets,
    eraseRegions, r,  \* the planned regions and the index of the wipe loop
    probes,           \* history: one record per info.Read call
    writes,           \* history: one record per f.Write call
    out,              \* the lines printed, in order
    exit              \* exit status, -1 while running

vars == <<pc, offset, doWipe, devSize, hdrImg, disk, pos, hdr, i, info,
          validInfoSize, validInfoOffsets, eraseRegions, r, probes, writes,
          out, exit>>

Line(text, a, b) == [text |-> text, a |-> a, b |-> b]

Init ==
    /\ pc = "start"
    /\ offset \in Offsets
    /\ doWipe \in BOOLEAN
    /\ devSize \in DevSizes
    /\ hdrImg \in Headers
    /\ disk = <<>>
    /\ pos = 0
    /\ hdr = ZeroHeader
    /\ i = 0
    /\ info = ZeroInfo
    /\ validInfoSize = 0
    /\ validInfoOffsets = <<0, 0, 0>>
    /\ eraseRegions = <<>>
    /\ r = 0
    /\ probes = <<>>
    /\ writes = <<>>
    /\ out = <<>>
    /\ exit = -1

\* fatal(): print the diagnostic and exit with status 1
Fatal(text) ==
    /\ out' = Append(out, Line(text, 0, 0))
    /\ exit' = 1
    /\ pc' = "exit"

\* flag check and os.OpenFile
Start ==
    /\ pc = "start"
    /\ \E opened \in BOOLEAN :
         IF offset < 0 THEN Fatal("offset cannot be negative")
         ELSE IF ~opened THEN Fatal("can't open file")
         ELSE /\ pc' = "header"
              /\ UNCHANGED <<out, exit>>
    /\ UNCHANGED <<offset, doWipe, devSize, hdrImg, disk, pos, hdr, i, info,
                   validInfoSize, validInfoOffsets, eraseRegions, r, probes, writes>>

\* seek to the base offset, decode the volume header, validate it
ReadHeader ==
    /\ pc = "header"
    /\ LET at == Seek(pos, offset)
           avail == Max(devSize - at, 0)
       IN IF avail < VolumeHeaderSize
            THEN /\ Fatal("can't read header")
                 /\ pos' = at + avail
                 /\ UNCHANGED <<hdr, i>>
          ELSE /\ pos' = at + VolumeHeaderSize
               /\ hdr' = hdrImg
               /\ IF ~HeaderValid(hdrImg)
                    THEN /\ Fatal(HeaderError(hdrImg))
                         /\ UNCHANGED i
                    ELSE /\ out' = out \o [k \in 1..3 |->
                                       Line("metadata offset", k - 1, hdrImg.InfoOffsets[k])]
                         /\ pc' = "probe"
                         /\ i' = 0
                         /\ UNCHANGED exit
    /\ UNCHANGED <<offset, doWipe, devSize, hdrImg, disk, info, validInfoSize,
                   validInfoOffsets, eraseRegions, r, probes, writes>>

\* one iteration of the "check info structs" loop
Probe ==
    /\ pc = "probe"
    /\ i < 3
    /\ LET target == Add64(offset, ToInt64(hdr.InfoOffsets[i + 1]))
           at == Seek(pos, target)
       IN \E img \in (IF at \in DOMAIN disk THEN {disk[at]} ELSE Images) :
            LET res == Read(at, img, devSize, info)
            IN /\ disk' = (at :> img) @@ disk
               /\ pos' = res.pos
               /\ info' = res.s
               /\ probes' = Append(probes,
                      [i |-> i, target |-> target, at |-> at, img |-> img,
                       size |-> res.size, err |-> res.err,
                       payloadReq |-> res.payloadReq])
               /\ IF res.err # ""
                    THEN /\ out' = Append(out, Line("can't parse metadata block", i, res.err))
                         /\ UNCHANGED <<validInfoSize, validInfoOffsets>>
                    ELSE /\ validInfoSize' = RecordSize(res.size, hdr)
                         /\ validInfoOffsets' = RecordOffsets(res.s, hdr)
                         /\ out' = Append(out, Line("metadata block parsed OK", i,
                                                    RoundUp(res.size, hdr.SectorSize)))
    /\ i' = i + 1
    /\ pc' = IF i + 1 < 3 THEN "probe" ELSE "check"
    /\ UNCHANGED <<offset, doWipe, devSize, hdrImg, hdr, eraseRegions, r,
                   writes, exit>>

\* after the loop: give up without a valid block, else plan the wipe
CheckValid ==
    /\ pc = "check"
    /\ IF NoValidBlock(validInfoSize)
         THEN /\ Fatal("invalid or no metadata blocks found!")
              /\ UNCHANGED <<eraseRegions, r>>
       ELSE IF WipeRequested(doWipe)
         THEN /\ eraseRegions' = EraseRegions(hdr, validInfoOffsets, validInfoSize)
              /\ r' = 1
              /\ pc' = "wipe"
              /\ UNCHANGED <<out, exit>>
       ELSE /\ pc' = "exit"
            /\ exit' = 0
            /\ UNCHANGED <<out, eraseRegions, r>>
    /\ UNCHANGED <<offset, doWipe, devSize, hdrImg, disk, pos, hdr, i, info,
                   validInfoSize, validInfoOffsets, probes, writes>>

\* one iteration of the wipe loop: random buffer, seek, write
WipeRegion ==
    /\ pc = "wipe"
    /\ r <= Len(eraseRegions)
    /\ LET region == eraseRegions[r]
       IN \E randOk \in BOOLEAN, n \in {0, region.Size \div 2, region.Size} :
            IF ~randOk
              THEN /\ n = 0
                   /\ Fatal("unable to generate rand bytes")
                   /\ UNCHANGED <<pos, writes, r>>
            ELSE LET target == WriteTarget(offset, region)
                     at == Seek(pos, target)
                     failed == n < region.Size
                     next == AfterWrite(r, failed)
                     line1 == Line("overwriting", region.Name, region.Size)
                 IN /\ pos' = at + n
                    /\ writes' = Append(writes,
                           [region |-> r, name |-> region.Name, target |-> target,
                            at |-> at, n |-> n, len |-> region.Size,
                            failed |-> failed])
                    /\ out' = IF failed
                                THEN out \o <<line1, Line("unable to write region", r, 0)>>
                                ELSE Append(out, line1)
                    /\ r' = next
                    /\ IF next <= Len(eraseRegions)
                         THEN UNCHANGED <<pc, exit>>
                         ELSE pc' = "exit" /\ exit' = 0
    /\ UNCHANGED <<offset, doWipe, devSize, hdrImg, disk, hdr, i, info,
                   validInfoSize, validInfoOffsets, eraseRegions, probes>>

Next == Start \/ ReadHeader \/ Probe \/ CheckValid \/ WipeRegion

Spec == Init /\ [][Next]_vars

---------------------------------------------------------------------------
\* vocabulary of the properties

Printed(text) == \E k \in 1..Len(out) : out[k].text = text

\* the header checks were passed: the offsets were printed
HeaderPassed == Printed("metadata offset")

Decoded == {k \in 1..Len(probes) : probes[k].err = ""}

\* payload size plus the footer's extra size, from the block's own bytes
TotalSize(img) ==
    (IF img.Version = 2 THEN img.Size * 16 ELSE img.Size) + img.vSize

\* x rounded up to a multiple of m
CeilTo(x, m) == ((x + m - 1) \div m) * m

IsPowerOfTwo(n) == \E e \in 0..16 : n = Pow2(e)

RegionNames == <<"volume header", "metadata block 0", "metadata block 1",
                 "metadata block 2">>

\* the device bytes of planned region k, and of write k
RegionBytes(k) ==
    (offset + eraseRegions[k].Offset) ..
        (offset + eraseRegions[k].Offset + eraseRegions[k].Size - 1)
WrittenBytes(k) == writes[k].at .. (writes[k].at + writes[k].n - 1)

\* region k has been overwritten in full
Overwritten(name) ==
    \E k \in 1..Len(writes) : writes[k].name = name /\ ~writes[k].failed

WipeStarted == eraseRegions # <<>>

---------------------------------------------------------------------------
\* C1: with a validated header, the run aborts with "invalid or no metadata
\* blocks found" and status 1 exactly when none of the three probes decoded,
\* and then no write is issued, with or without -wipe.
C1_AbortIffNoneDecoded ==
    /\ Printed("invalid or no metadata blocks found!") =>
          /\ exit = 1 /\ pc = "exit" /\ HeaderPassed
          /\ Len(probes) = 3 /\ Decoded = {} /\ writes = <<>>
    /\ (HeaderPassed /\ pc = "exit" /\ Decoded = {}) =>
          Printed("invalid or no metadata blocks found!")
    /\ (Len(probes) = 3 /\ Decoded = {}) => writes = <<>>

C1_Witness ==
    /\ doWipe /\ HeaderPassed /\ Len(probes) = 3 /\ Decoded = {}
    /\ Printed("invalid or no metadata blocks found!") /\ exit = 1

\* C2: in a wipe run the three metadata-block regions have the last validated
\* block's total size rounded up to a multiple of the sector size, and the
\* volume-header region is at offset 0 with the sector size as length.
C2_RegionsSectorRounded ==
    WipeStarted =>
       LET last == CHOOSE k \in Decoded : \A j \in Decoded : j <= k
           want == CeilTo(TotalSize(probes[last].img), hdr.SectorSize)
       IN /\ eraseRegions[1].Offset = 0
          /\ eraseRegions[1].Size = hdr.SectorSize
          /\ \A k \in 2..4 : eraseRegions[k].Size = want

\* C3: a write happens only with -wipe, and only after the header passed
\* validation and all three candidates were probed.
C3_WriteOnlyAfterProbes ==
    /\ writes # <<>> =>
          /\ doWipe /\ HeaderPassed /\ HeaderValid(hdr)
          /\ Len(probes) = 3 /\ pc \in {"wipe", "exit"}
    /\ ~doWipe => writes = <<>> /\ pc # "wipe"

C3_Witness == writes # <<>> /\ Len(probes) = 3 /\ doWipe

\* C4: whatever the outcome of the seeks and writes, every device byte
\* outside the four planned regions keeps its value: the bytes a write
\* changes all lie in [base offset + region offset, + region length).
C4_WritesInsideRegions ==
    \A k \in 1..Len(writes) :
       WrittenBytes(k) \subseteq UNION {RegionBytes(j) : j \in 1..4}

\* C5 as stated: never is the volume header overwritten while one of the
\* metadata-block regions is not yet overwritten.
C5_MetadataAtLeastAsDamaged ==
    ~ (/\ Overwritten("volume header")
       /\ \E k \in 2..4 : ~Overwritten(RegionNames[k]))

\* C5: the volume header is written first: no write to a metadata-block
\* region is attempted before the write to the volume-header region.
C5_HeaderWrittenFirst ==
    \A k \in 1..Len(writes) :
       writes[k].name # "volume header" =>
          \E j \in 1..(k - 1) : writes[j].name = "volume header"

C5_Witness ==
    /\ Overwritten("volume header")
    /\ \A k \in 2..4 : ~Overwritten(RegionNames[k])
    /\ pc = "wipe"

\* C6: the regions written are a prefix of the list, in order; a failed
\* write is reported and the later regions are still attempted; only a
\* failure to generate random bytes cuts the sequence short, and then no
\* write is made for that region or any later one.
C6_WritesArePrefix ==
    /\ [](/\ \A k \in 1..Len(writes) : writes[k].name = RegionNames[k]
          /\ \A k \in 1..Len(writes) :
                writes[k].failed =>
                   \E j \in 1..Len(out) :
                      out[j].text = "unable to write region" /\ out[j].a = k
          /\ (WipeStarted /\ pc = "exit"
                 /\ ~Printed("unable to generate rand bytes")) =>
                Len(writes) = 4 /\ exit = 0
          /\ Printed("unable to generate rand bytes") => pc = "exit" /\ exit = 1)
    /\ [][Printed("unable to generate rand bytes")' => writes' = writes]_vars

C6_Witness ==
    /\ Len(writes) = 4 /\ writes[2].failed /\ ~writes[4].failed /\ pc = "exit"

\* C7: a decode succeeds only if the checksum of the whole declared-size
\* payload equals the one stored in the footer; on a mismatch the decode
\* fails, nothing is recorded, the run goes on, and all three candidates
\* are probed whatever the earlier outcomes.
C7_ChecksumGate ==
    /\ [](/\ \A k \in 1..Len(probes) :
                LET p == probes[k]
                    n == IF p.img.Version = 2 THEN p.img.Size * 16 ELSE p.img.Size
                    equal == ChecksumIEEE(Buf(p.img, n)) = p.img.vCrc32
                    compared == /\ p.payloadReq > 0
                                /\ p.err \notin {"unexpected EOF",
                                                 "cannot read validation header"}
                IN /\ p.i = k - 1
                   /\ p.err = "" => equal
                   /\ (compared /\ ~equal) => p.err = "validation checksum mismatch"
                   /\ p.err = "validation checksum mismatch" => compared /\ ~equal
          /\ (HeaderPassed /\ pc \in {"check", "wipe", "exit"}) => Len(probes) = 3)
    /\ [][(/\ Len(probes') = Len(probes) + 1
           /\ probes'[Len(probes')].err = "validation checksum mismatch")
          => /\ validInfoSize' = validInfoSize
             /\ validInfoOffsets' = validInfoOffsets
             /\ exit' = -1
             /\ pc' = IF Len(probes') < 3 THEN "probe" ELSE "check"]_vars

C7_Witness ==
    /\ Len(probes) = 3
    /\ probes[1].err = "validation checksum mismatch"
    /\ probes[2].err = ""

\* C8: the recorded size and offsets both come from the highest-indexed
\* candidate that decoded; a later failure leaves them alone, a later
\* success replaces both; the three metadata-block regions share one length
\* and lie at the offsets recorded inside that block.
C8_LastValidBlockWins ==
    Decoded # {} =>
       LET last == CHOOSE k \in Decoded : \A j \in Decoded : j <= k
           img == probes[last].img
           offs == [k \in 1..3 |->
                      IF img.InfoOffsets[k] >= Pow2(WordBits - 1)
                        THEN img.InfoOffsets[k] - Pow2(WordBits)
                        ELSE img.InfoOffsets[k]]
       IN /\ validInfoSize = TotalSize(img)
          /\ validInfoOffsets = offs
          /\ WipeStarted =>
                \A k \in 1..3 : /\ eraseRegions[k + 1].Offset = offs[k]
                                /\ eraseRegions[k + 1].Size = TotalSize(img)

C8_Witness ==
    /\ WipeStarted
    /\ Decoded = {1, 2}
    /\ probes[1].img.InfoOffsets # probes[2].img.InfoOffsets
    /\ TotalSize(probes[1].img) # TotalSize(probes[2].img)
    /\ probes[2].img.InfoOffsets # hdr.InfoOffsets

\* C9: once the run is past the volume header (a probe or a write happened),
\* the header has the magic signature, a sector size that is at least 512
\* and a power of two, and the known GUID.
C9_HeaderInvariant ==
    (probes # <<>> \/ writes # <<>> \/ pc \in {"probe", "check", "wipe"}) =>
       /\ hdr.Signature = Magic
       /\ hdr.SectorSize >= 512
       /\ IsPowerOfTwo(hdr.SectorSize)
       /\ hdr.Guid = GoodGuid

\* C10: with a valid signature the payload size is the raw size field for
\* version 1 and sixteen times it for version 2; any other version fails,
\* and so does a size below 64, both before any payload is read.
C10_VersionDispatch ==
    \A k \in 1..Len(probes) :
       LET p == probes[k]
           computed == IF p.err = "" THEN p.size - p.img.vSize ELSE p.size
       IN (p.err # "EOF" /\ p.img.Signature = Magic) =>
            /\ p.img.Version = 1 => computed = p.img.Size
            /\ p.img.Version = 2 => computed = p.img.Size * 16
            /\ p.img.Version \notin {1, 2} => p.err # "" /\ p.payloadReq = 0
            /\ (p.img.Version \in {1, 2} /\ computed < 64) =>
                  p.err # "" /\ p.payloadReq = 0
            /\ p.payloadReq > 0 => p.payloadReq = computed /\ computed >= 64

C10_Witness ==
    /\ Len(probes) = 3
    /\ probes[1].img.Version = 2 /\ probes[1].err = ""
    /\ probes[2].err = "unknown version"
    /\ probes[3].err = "size too small" /\ probes[3].img.Version = 2

====
